---- MODULE Spec2Model ----
(***************************************************************************)
(* Water-use interval extraction and classification.                       *)
(*                                                                         *)
(* A day of meter readings is reduced to "key" readings (quiescence        *)
(* boundaries), consecutive key readings are differenced into interval     *)
(* volumes, and each volume is labelled Flushing / Bucket / SmallUse.      *)
(* Two implementations are modelled:                                       *)
(*   create_enhanced_figure_cn   src/enhanced_plot_cn.py  (descending by   *)
(*                               time-of-day, signed thresholds)           *)
(*   compute_intervals_keypoints src/app.py               (ascending by    *)
(*                               full timestamp, absolute volumes)         *)
(*                                                                         *)
(* Units.  A timestamp is a whole number of seconds counted from 00:00:00  *)
(* of the first calendar day of the data; a time-of-day is its value of    *)
(* hour*3600 + minute*60 + second.  cumulative_flow is held in units of    *)
(* 0.0001 m^3 and an interval volume in units of 0.0001 L, so the code's   *)
(* factor 1000 is kept and 6.5 L and 25 L are whole numbers.  Arithmetic   *)
(* is exact (binary floating-point rounding is not modelled).  Timestamps   *)
(* carry no fraction of a second.                                          *)
(***************************************************************************)
EXTENDS Integers, Sequences, FiniteSets, TLC

VARIABLES
    readings,   \* the day's input table df_day, in input order
    fn,         \* the function that produced the tables below ("none" at first)
    wm_data1,   \* the sorted full reading table with its gap column
    keys,       \* the key readings (wm_data2 before the volumes are computed)
    out,        \* the interval table (wm_data2 as left by the function)
    raised,     \* whether the call raised an exception
    clock,      \* time.time() of the API server, in ticks of 1/TicksPerSecond s
    RATE_BUCKETS,   \* _RATE_BUCKETS: per client IP, the whole seconds of its
                    \* accepted calls
    accepted,   \* per client IP, the clock values of its accepted calls
    response,   \* the answer to the latest /api/data request
    today,      \* datetime.now().date() of the storage process, as a day number
    data_file,  \* water_meter_data.csv: the dates of its records, in file order
    cleanup_result, \* what check_data_cleanup returned last
    warned,     \* whether check_data_cleanup has returned a warning so far
    token,      \* the token create_token returned last
    verdict,    \* what /auth/verify answered last
    csv,        \* water_meter_data.csv as the queries see it: the number of
                \* writes it has received, and whether it has no rows
    query_cache,    \* the entry of query_cache for the one query asked
    wpc,        \* where the writing thread is
    qpc,        \* where each querying thread is
    qdf,        \* the DataFrame each querying thread has read
    qneed,      \* per querying thread: the writes that had returned when its
                \* latest query started
    qresult,    \* per querying thread: what its latest query returned
    devices_json,   \* the list of records in devices.json
    spc,        \* where each thread inside create_device or the
                \* registration of save_water_data is
    sdevice,    \* the device_no each such thread works on
    sdevices    \* the list each such thread has loaded from devices.json

vars == <<readings, fn, wm_data1, keys, out, raised,
          clock, RATE_BUCKETS, accepted, response,
          today, data_file, cleanup_result, warned, token, verdict,
          csv, query_cache, wpc, qpc, qdf, qneed, qresult,
          devices_json, spc, sdevice, sdevices>>

\* The variables of the interval functions, and those of the servers.
water == <<readings, fn, wm_data1, keys, out, raised>>

rate == <<RATE_BUCKETS, accepted, response>>

cleanup == <<today, data_file, cleanup_result, warned>>

auth == <<token, verdict>>

storage == <<csv, query_cache, wpc, qpc, qdf, qneed, qresult>>

registry == <<devices_json, spc, sdevice, sdevices>>

server == <<clock, rate, cleanup, auth, storage, registry>>

\* What an action of one component leaves alone.
notRate == <<water, cleanup, auth, storage, registry>>

notClock == <<water, rate, cleanup, auth, storage, registry>>

notCleanup == <<water, clock, rate, auth, storage, registry>>

notAuth == <<water, rate, cleanup, storage, registry>>

notStorage == <<water, clock, rate, cleanup, auth, registry>>

notRegistry == <<water, clock, rate, cleanup, auth, storage>>

\* Largest number of readings of a day.
MaxLen == 3

\* pd.to_datetime(errors='coerce') yields NaT for an unparseable timestamp.
NaT == -1

\* pd.to_numeric(errors='coerce') yields NaN for a non-numeric value; shift()
\* fills the vacated row with NaN.
NaN == -2000000000

\* Quiescence threshold of the gap rule, in seconds.
GapThreshold == 360

\* 25 L and 6.5 L in units of 0.0001 L.
FlushingAbove == 250000

BucketAbove == 65000

Flushing == "Flushing"

Bucket == "Bucket"

SmallUse == "SmallUse"

Unlabelled == ""

Labels == {Flushing, Bucket, SmallUse}

\* Timestamps of the first calendar day: 00:01:00, 08:00:00, 08:02:00, 08:10:00.
Times == {60, 28800, 28920, 29400}

\* cumulative_flow values: 10.0000 and 10.0315 m^3.
Flows == {100000, 100315}

\* A sparse day: 00:01:00, 08:00:00 and 23:59:00, every two of them more
\* than the threshold apart.
SparseTimes == {60, 28800, 86340}

\* cumulative_flow values 10.0000, 10.0065, 10.0100, 10.0315 m^3: their
\* differences include 6.5 L, 10 L, 25 L and 31.5 L.
SparseFlows == {100000, 100065, 100100, 100315}

\* Scenario 1 of the specification: readings at 08:00:00, 08:02:00 and
\* 08:10:00, with cumulative 10.0000 or 10.0300 m^3.
ScenarioTimes == {28800, 28920, 29400}

ScenarioFlows == {100000, 100300}

\* Readings around midnight: 08:00:00 and 23:59:00 of the first calendar day
\* and 00:01:00 of the second.
MidnightTimes == {28800, 86340, 86460}

\* Clock ticks per second: time.time() has a fraction, int() cuts it off.
TicksPerSecond == 2

\* RATE_LIMIT_PER_MINUTE of the environment (240 when it is not set).
RATE_LIMIT_PER_MIN == 2

\* The window of the rate limit, in seconds.
RateWindow == 60

\* The clients.
IPs == {"10.0.0.1", "10.0.0.2"}

\* The instants at which requests arrive, in ticks: 0.0, 0.5, 59.5, 60.0,
\* 60.5 and 61.0 s.
Instants == {0, 1, 119, 120, 121, 122}

\* AUTH_TOKEN_TTL of the environment, in seconds (86400 when it is not set).
TOKEN_TTL_SECONDS == 60

NoToken == [exp |-> -1, issued |-> -1]

NoVerdict ==
    [ok |-> FALSE, status |-> 0, at |-> -1, issued |-> -1, tampered |-> FALSE]

\* No token has been issued or verified.
AuthIdle == token = NoToken /\ verdict = NoVerdict

\* CACHE_TIMEOUT of local_storage.py, in seconds.
CACHE_TIMEOUT == 60

\* The threads that call query_water_data.
Queriers == {"q1", "q2"}

\* The largest number of writes to the data file.
MaxWrites == 3

NoEntry == [data |-> -1, timestamp |-> -1]

\* No data file, an empty cache, no thread inside a function.
StorageIdle ==
    /\ csv = [writes |-> 0, empty |-> TRUE]
    /\ query_cache = NoEntry
    /\ wpc = "idle"
    /\ qpc = [t \in Queriers |-> "idle"]
    /\ qdf = [t \in Queriers |-> -1]
    /\ qneed = [t \in Queriers |-> 0]
    /\ qresult = [t \in Queriers |-> -1]

\* The device numbers that occur.
DeviceNos == {"d1", "d2"}

\* The threads that register devices.
Savers == {"s1", "s2"}

\* The largest number of records in devices.json.
MaxDevices == 3

\* The largest number of devices in one bulk import.
MaxImport == 2

\* No devices.json, no thread inside a function.
RegistryIdle ==
    /\ devices_json = <<>>
    /\ spc = [t \in Savers |-> "idle"]
    /\ sdevice = [t \in Savers |-> "none"]
    /\ sdevices = [t \in Savers |-> <<>>]

NoResponse ==
    [ip |-> "none", limited |-> FALSE, status |-> 0, scheduled |-> FALSE,
     before |-> <<>>]

\* DATA_RETAIN_DAYS and CLEANING_WARNING_DAYS of local_storage.py.
DATA_RETAIN_DAYS == 180

CLEANING_WARNING_DAYS == 7

\* The day on which the cleanup loop starts, and the last day looked at.
FirstDay == 170

MaxDay == 190

\* The dates of the records in the data file, as day numbers, and the
\* largest number of records.
RecordDates == {0, 1, 2, 3}

MaxRecords == 2

NoResult == [needs_cleanup |-> FALSE, count |-> 0]

\* The rate limiter before any request.
RateIdle ==
    /\ RATE_BUCKETS = [ip \in IPs |-> <<>>]
    /\ accepted = [ip \in IPs |-> <<>>]
    /\ response = NoResponse

\* The cleanup loop before its first check, with an empty data file.
CleanupIdle ==
    /\ today = FirstDay
    /\ data_file = <<>>
    /\ cleanup_result = NoResult
    /\ warned = FALSE

\* The servers before any request.
ServerIdle ==
    /\ clock = 0
    /\ RateIdle
    /\ CleanupIdle
    /\ AuthIdle
    /\ StorageIdle
    /\ RegistryIdle

\* ------------------------------------------------------------------------
\* Helpers on tables (sequences of rows).

Range(s) == {s[i] : i \in 1..Len(s)}

Ids(s) == {s[i].id : i \in 1..Len(s)}

\* df['时间计算'] = df['上报时间'].dt.time : the date is discarded.
TimeOfDay(ts) == IF ts = NaT THEN NaT ELSE ts % (24 * 3600)

\* Faulty variant of Rows: readings without a parseable timestamp are left
\* out of the table.
RowsParsed(df) ==
    SelectSeq([i \in 1..Len(df) |->
                  [id |-> i, ts |-> df[i].ts, t |-> TimeOfDay(df[i].ts),
                   flow |-> df[i].flow, gap |-> 0]],
              LAMBDA r : r.ts # NaT)

\* The input table as rows carrying their position in the input.
Rows(df) ==
    [i \in 1..Len(df) |->
        [id |-> i, ts |-> df[i].ts, t |-> TimeOfDay(df[i].ts),
         flow |-> df[i].flow, gap |-> 0]]

\* Row a is placed strictly before row b by a descending sort on time-of-day
\* (missing values last).
DescBefore(a, b) == a.t # NaT /\ (b.t = NaT \/ a.t > b.t)

\* Row a is placed strictly before row b by an ascending sort on the timestamp
\* (missing values last).
AscBefore(a, b) == a.ts # NaT /\ (b.ts = NaT \/ a.ts < b.ts)

Before(a, b, ascending) ==
    IF ascending THEN AscBefore(a, b) ELSE DescBefore(a, b)

\* Insert x into the sorted table s behind every row it does not strictly
\* precede: rows with equal keys keep their input order, and rows with a
\* missing key keep theirs at the end.  (pandas sorts the non-missing keys
\* with numpy's default sort, which is an insertion sort on tables of at most
\* 16 rows, reversing before and after for a descending sort, and appends
\* the rows with a missing key.)
RECURSIVE InsertSorted(_, _, _)
InsertSorted(x, s, ascending) ==
    IF s = <<>> THEN <<x>>
    ELSE IF Before(x, s[1], ascending) THEN <<x>> \o s
    ELSE <<s[1]>> \o InsertSorted(x, Tail(s), ascending)

RECURSIVE SortBy(_, _)
SortBy(s, ascending) ==
    IF s = <<>> THEN <<>>
    ELSE InsertSorted(s[Len(s)], SortBy(SubSeq(s, 1, Len(s) - 1), ascending),
                      ascending)

\* Faulty variant of sort_values_desc: ascending=False is left out.
sort_values_default(s) == SortBy(s, TRUE)

\* sort_values(by='时间计算', ascending=False)
sort_values_desc(s) == SortBy(s, FALSE)

\* sort_values('上报时间')
sort_values_asc(s) == SortBy(s, TRUE)

\* NaN-propagating subtraction and the scaling to litres.
Sub(a, b) == IF a = NaN \/ b = NaN THEN NaN ELSE a - b

\* Faulty variant of Scale1000: the conversion from m^3 to litres is left out.
ScaleNone(d) == d

Scale1000(d) == IF d = NaN THEN NaN ELSE 1000 * d

Abs(v) == IF v = NaN THEN NaN ELSE IF v < 0 THEN -v ELSE v

\* Comparisons: every comparison with NaN is False.
Gt(v, c) == v # NaN /\ v > c

Le(v, c) == v # NaN /\ v <= c

\* ------------------------------------------------------------------------
\* Key-point selection, descending by time-of-day.

\* Faulty variant of time_diff_seconds: a difference of zero is wrapped as well.
time_diff_seconds_wrap_zero(t1, t2) ==
    IF t1 = NaT \/ t2 = NaT THEN 0
    ELSE LET diff == t1 - t2
         IN  IF diff <= 0 THEN diff + 24 * 3600 ELSE diff

time_diff_seconds(t1, t2) ==
    IF t1 = NaT \/ t2 = NaT THEN 0
    ELSE LET diff == t1 - t2
         IN  IF diff < 0 THEN diff + 24 * 3600 ELSE diff

\* Faulty variant of shift_time: the column is rotated, so the first row
\* receives the time of the last row instead of a missing value.
shift_time_roll(s, i) == IF i = 1 THEN s[Len(s)].t ELSE s[i - 1].t

\* ['时间计算'].shift(1): the time of the row above, missing for the first row.
shift_time(s, i) == IF i = 1 THEN NaT ELSE s[i - 1].t

\* Faulty variant of WithGaps: the arguments of the difference are exchanged.
WithGapsSwapped(s) ==
    [i \in 1..Len(s) |->
        [s[i] EXCEPT !.gap = time_diff_seconds(s[i].t, shift_time(s, i))]]

\* The '时间差秒' column.
WithGaps(s) ==
    [i \in 1..Len(s) |->
        [s[i] EXCEPT !.gap = time_diff_seconds(shift_time(s, i), s[i].t)]]

\* Faulty variant of GapRows: the row ABOVE a long gap is selected instead of the row
\* below it (the gap is attributed to the wrong member of the pair).
GapRowsAbove(s) ==
    LET Pick[i \in 0..Len(s)] ==
            IF i = 0 THEN <<>>
            ELSE IF i < Len(s) /\ Gt(s[i + 1].gap, GapThreshold)
                 THEN Pick[i - 1] \o <<s[i]>>
                 ELSE Pick[i - 1]
    IN  Pick[Len(s)]

\* wm_data1[wm_data1['时间差秒'] > 360]
GapRows(s) == SelectSeq(s, LAMBDA r : Gt(r.gap, GapThreshold))

\* Faulty variant of Anchor: the last row of the sort is taken as the anchor.
AnchorTail(s) == IF s = <<>> THEN <<>> ELSE <<s[Len(s)]>>

\* wm_data1.head(1): the first row, or nothing of an empty table.
Anchor(s) == IF s = <<>> THEN <<>> ELSE SubSeq(s, 1, 1)

\* Faulty variant of KeyReadings: the table is not sorted again after the
\* anchor has been appended.
KeyReadingsUnsorted(wm1) == GapRows(wm1) \o Anchor(wm1)

\* concat of the gap rows and the anchor, sorted again from late to early.
KeyReadings(wm1) == sort_values_desc(GapRows(wm1) \o Anchor(wm1))

\* ------------------------------------------------------------------------
\* flow_calc: interval volumes and behaviour labels, signed thresholds.

\* Faulty variant of shift_flow: shift(1) instead of shift(-1).
shift_flow_up(k, i) == IF i > 1 THEN k[i - 1].flow ELSE NaN

\* ['累计流量'].shift(-1): the flow of the row below, missing for the last row.
shift_flow(k, i) == IF i < Len(k) THEN k[i + 1].flow ELSE NaN

\* Faulty variant of Classify: the magnitude of the volume is classified.
ClassifyMagnitude(v) ==
    IF v = NaN THEN Unlabelled
    ELSE IF Abs(v) > FlushingAbove THEN Flushing
    ELSE IF Abs(v) > BucketAbove THEN Bucket
    ELSE SmallUse

\* Faulty variant of Classify: the band boundaries are put on the wrong side.
ClassifyInclusive(v) ==
    IF v = NaN THEN Unlabelled
    ELSE IF v >= FlushingAbove THEN Flushing
    ELSE IF v >= BucketAbove THEN Bucket
    ELSE SmallUse

\* The label column starts empty and is overwritten by three masked writes.
Classify(v) ==
    LET l0 == Unlabelled
        l1 == IF Gt(v, FlushingAbove) THEN Flushing ELSE l0
        l2 == IF Gt(v, BucketAbove) /\ Le(v, FlushingAbove) THEN Bucket ELSE l1
        l3 == IF Le(v, BucketAbove) THEN SmallUse ELSE l2
    IN  l3

IntervalRow(k, i, vol, label) ==
    [id |-> k[i].id, ts |-> k[i].ts, t |-> k[i].t, flow |-> k[i].flow,
     vol |-> vol, label |-> label]

\* Faulty variant of drop_last: the first row is deleted instead of the last.
drop_first(s) == IF s = <<>> THEN <<>> ELSE Tail(s)

\* wm_data2.iloc[:-1]
drop_last(s) == SubSeq(s, 1, Len(s) - 1)

flow_calc(k) ==
    IF Len(k) = 0 THEN <<>>
    ELSE drop_last(
           [i \in 1..Len(k) |->
               LET vol == Scale1000(Sub(k[i].flow, shift_flow(k, i)))
               IN  IntervalRow(k, i, vol, Classify(vol))])

\* ------------------------------------------------------------------------
\* compute_intervals_keypoints: ascending by timestamp, absolute volumes.

\* (df['上报时间'] - df['prev_time']).dt.total_seconds()
WithGapsAsc(s) ==
    [i \in 1..Len(s) |->
        [s[i] EXCEPT !.gap =
            IF i = 1 \/ s[i].ts = NaT \/ s[i - 1].ts = NaT THEN NaN
            ELSE s[i].ts - s[i - 1].ts]]

KeyReadingsAsc(df) == sort_values_asc(GapRows(df) \o Anchor(df))

\* The label column starts as SmallUse and is overwritten by two masked writes.
ClassifyAbs(v) ==
    LET l0 == SmallUse
        l1 == IF Gt(v, FlushingAbove) THEN Flushing ELSE l0
        l2 == IF Gt(v, BucketAbove) /\ Le(v, FlushingAbove) THEN Bucket ELSE l1
    IN  l2

IntervalsAbs(k) ==
    LET all == [i \in 1..Len(k) |->
                   IntervalRow(k, i, Scale1000(Sub(k[i].flow, shift_flow(k, i))),
                               Unlabelled)]
        kept == SelectSeq(all, LAMBDA r : r.vol # NaN)
    IN  [i \in 1..Len(kept) |->
            [kept[i] EXCEPT !.vol = Abs(kept[i].vol),
                            !.label = ClassifyAbs(Abs(kept[i].vol))]]

\* ------------------------------------------------------------------------
\* compute_intervals: ascending by timestamp, differences of adjacent
\* readings, positive volumes only.

\* Rows with a missing volume are removed, then rows whose volume is not
\* above zero; the label column starts as SmallUse and is overwritten by two
\* masked writes.
IntervalsPositive(df) ==
    LET all == [i \in 1..Len(df) |->
                   IntervalRow(df, i,
                               Scale1000(Sub(df[i].flow, shift_flow(df, i))),
                               Unlabelled)]
        notna == SelectSeq(all, LAMBDA r : r.vol # NaN)
        kept == SelectSeq(notna, LAMBDA r : Gt(r.vol, 0))
    IN  [i \in 1..Len(kept) |->
            [kept[i] EXCEPT !.label = ClassifyAbs(kept[i].vol)]]

\* ------------------------------------------------------------------------
\* The reference script water_analysis_enhanced_en.py: selectdate and
\* flow_calc, applied to one date of the whole data set.

\* wm_data.fillna(0): a missing cumulative_flow becomes 0.
fillna(data) ==
    [i \in 1..Len(data) |->
        [data[i] EXCEPT !.flow = IF data[i].flow = NaN THEN 0 ELSE data[i].flow]]

\* ['上报时间'].dt.date : the calendar day of a timestamp.
DateOf(ts) == ts \div (24 * 3600)

\* time_diff_seconds, local to selectdate.
script_time_diff_seconds(t1, t2) ==
    IF t1 = NaT \/ t2 = NaT THEN 0
    ELSE LET t1_seconds == t1
             t2_seconds == t2
             diff == t1_seconds - t2_seconds
         IN  IF diff < 0 THEN diff + 24 * 3600 ELSE diff

\* selectdate(date): the readings of the date from late to early with their
\* gaps (wm_data1), and the key readings among them (wm_data2).
selectdate(data, date) ==
    LET sel == SelectSeq(data, LAMBDA r : DateOf(r.ts) = date)
        sorted == SortBy(sel, FALSE)
        w1 == [i \in 1..Len(sorted) |->
                  [sorted[i] EXCEPT !.gap =
                      script_time_diff_seconds(
                          IF i = 1 THEN NaT ELSE sorted[i - 1].t, sorted[i].t)]]
        w2 == SelectSeq(w1, LAMBDA r : r.gap > 360) \o SubSeq(w1, 1, 1)
    IN  IF Len(sel) = 0
        THEN [wm_data1 |-> <<>>, wm_data2 |-> <<>>]
        ELSE [wm_data1 |-> w1, wm_data2 |-> SortBy(w2, FALSE)]

\* flow_calc(wm_data2) of the script, with its English labels.
script_flow_calc(wm_data2) ==
    IF Len(wm_data2) = 0 THEN wm_data2
    ELSE LET Label(v) ==
                 LET l0 == ""
                     l1 == IF v > 250000 THEN "Flushing" ELSE l0
                     l2 == IF v > 65000 /\ v <= 250000 THEN "Bucket" ELSE l1
                     l3 == IF v <= 65000 THEN "Small Use" ELSE l2
                 IN  l3
             rows == [i \in 1..Len(wm_data2) |->
                         LET vol == IF i = Len(wm_data2) THEN NaN
                                    ELSE 1000 * (wm_data2[i].flow
                                                 - wm_data2[i + 1].flow)
                         IN  [id |-> wm_data2[i].id, ts |-> wm_data2[i].ts,
                              t |-> wm_data2[i].t, flow |-> wm_data2[i].flow,
                              vol |-> vol,
                              label |-> IF vol = NaN THEN "" ELSE Label(vol)]]
         IN  SubSeq(rows, 1, Len(rows) - 1)

\* ------------------------------------------------------------------------
\* The state machine: a day of readings is given, and any of the functions
\* is applied to it.  The functions keep nothing between calls, so a second
\* call on the same day yields what the first did.

Day(times, flows) ==
    UNION {[1..n -> [ts : times, flow : flows]] : n \in 1..MaxLen}

Start(days) ==
    /\ readings \in days
    /\ fn = "none"
    /\ wm_data1 = <<>>
    /\ keys = <<>>
    /\ out = <<>>
    /\ raised = FALSE
    /\ ServerIdle

\* Any day of at most MaxLen readings, unparseable timestamps and
\* non-numeric flows included.
Init == Start(Day(Times \cup {NaT}, Flows \cup {NaN}))

\* Any sparse day of at most MaxLen readings.
InitSparse == Start(Day(SparseTimes, SparseFlows \cup {NaN}))

\* The three readings of scenario 1, in any input order.
InitScenario1 ==
    Start({s \in [1..3 -> [ts : ScenarioTimes, flow : ScenarioFlows]] :
              {s[i].ts : i \in 1..3} = ScenarioTimes})

\* Readings of two calendar days handed over as one day's table.
InitMidnight == Start(Day(MidnightTimes, Flows))

create_enhanced_figure_cn ==
    LET w1 == WithGaps(sort_values_desc(Rows(readings)))
        k  == KeyReadings(w1)
    IN  /\ fn = "none"
        /\ fn' = "create_enhanced_figure_cn"
        /\ wm_data1' = w1
        /\ keys' = k
        /\ out' = flow_calc(k)
        /\ raised' = FALSE
        /\ UNCHANGED <<readings, server>>

compute_intervals_keypoints ==
    LET df == WithGapsAsc(sort_values_asc(Rows(readings)))
        k  == KeyReadingsAsc(df)
    IN  /\ fn = "none"
        /\ fn' = "compute_intervals_keypoints"
        /\ wm_data1' = df
        /\ keys' = k
        /\ out' = IntervalsAbs(k)
        /\ raised' = FALSE
        /\ UNCHANGED <<readings, server>>

\* df.dropna(subset=['上报时间'])
dropna(s) == SelectSeq(s, LAMBDA r : r.ts # NaT)

\* The copy of create_enhanced_figure_cn in app.py.  It removes the readings
\* without a parseable timestamp and then runs the same statements as
\* enhanced_plot_cn.py.  When no reading is left, apply(axis=1) on the empty
\* table returns a DataFrame and its assignment to the gap column raises a
\* ValueError or is accepted, depending on the pandas build; if accepted,
\* the function goes on with empty tables.
app_create_enhanced_figure_cn ==
    LET df == dropna(Rows(readings))
        w1 == WithGaps(sort_values_desc(df))
        k  == KeyReadings(w1)
    IN  /\ fn = "none"
        /\ fn' = "app.create_enhanced_figure_cn"
        /\ IF df = <<>>
           THEN /\ raised' \in BOOLEAN
                /\ wm_data1' = <<>>
                /\ keys' = <<>>
                /\ out' = <<>>
           ELSE /\ raised' = FALSE
                /\ wm_data1' = w1
                /\ keys' = k
                /\ out' = flow_calc(k)
        /\ UNCHANGED <<readings, server>>

\* One iteration of the script's loop over the dates of the data.  The
\* script converts the timestamps without errors='coerce': a timestamp that
\* cannot be parsed ends the program with an error.
water_analysis_enhanced_en ==
    /\ fn = "none"
    /\ fn' = "water_analysis_enhanced_en"
    /\ IF \E i \in 1..Len(readings) : readings[i].ts = NaT
       THEN /\ raised' = TRUE
            /\ wm_data1' = <<>>
            /\ keys' = <<>>
            /\ out' = <<>>
       ELSE \E date \in {DateOf(readings[i].ts) : i \in 1..Len(readings)} :
                LET sd == selectdate(Rows(fillna(readings)), date)
                IN  /\ raised' = FALSE
                    /\ wm_data1' = sd.wm_data1
                    /\ keys' = sd.wm_data2
                    /\ out' = script_flow_calc(sd.wm_data2)
    /\ UNCHANGED <<readings, server>>

\* Every reading is an end point of an interval: keys is the sorted table.
compute_intervals ==
    LET df == sort_values_asc(Rows(readings))
    IN  /\ fn = "none"
        /\ fn' = "compute_intervals"
        /\ wm_data1' = df
        /\ keys' = df
        /\ out' = IntervalsPositive(df)
        /\ raised' = FALSE
        /\ UNCHANGED <<readings, server>>

Next ==
    \/ create_enhanced_figure_cn
    \/ compute_intervals_keypoints
    \/ compute_intervals
    \/ app_create_enhanced_figure_cn
    \/ water_analysis_enhanced_en

Spec == Init /\ [][Next]_vars

SpecSparse == InitSparse /\ [][Next]_vars

SpecScenario1 == InitScenario1 /\ [][Next]_vars

SpecMidnight == InitMidnight /\ [][Next]_vars

\* ------------------------------------------------------------------------
\* Properties.

Enhanced == fn = "create_enhanced_figure_cn"

Keypoints == fn = "compute_intervals_keypoints"

\* wm_data1 is the input, each reading once, from late to early by
\* time-of-day with the unparseable ones last.
SortedInput ==
    /\ Len(wm_data1) = Len(readings)
    /\ Ids(wm_data1) = 1..Len(readings)
    /\ \A i \in 1..Len(wm_data1) :
          /\ wm_data1[i].t = TimeOfDay(readings[wm_data1[i].id].ts)
          /\ wm_data1[i].flow = readings[wm_data1[i].id].flow
    /\ \A i, j \in 1..Len(wm_data1) :
          i < j => ~DescBefore(wm_data1[j], wm_data1[i])

\* The gap between row i of the sorted table and the row above it.
GapAbove(i) == time_diff_seconds(wm_data1[i - 1].t, wm_data1[i].t)

\* C1 as stated: of two readings adjacent in the descending time-of-day
\* order and more than 360 s apart, the one earlier in the sort order (the
\* chronologically later one) is a key reading.
C1_EarlierInSortIsKey ==
    Enhanced =>
        \A i \in 2..Len(wm_data1) :
            GapAbove(i) > 360 => wm_data1[i - 1].id \in Ids(keys)

\* C1 amended: of two readings adjacent in the descending time-of-day order
\* and more than 360 s apart, the one LATER in the sort order (the
\* chronologically earlier one) is a key reading.
C1_LaterInSortIsKey ==
    Enhanced =>
        /\ SortedInput
        /\ \A i \in 2..Len(wm_data1) :
              GapAbove(i) > 360 => wm_data1[i].id \in Ids(keys)

\* A long gap whose lower row is a key reading and whose upper row is not.
C1_Witness ==
    /\ Enhanced
    /\ \E i \in 2..Len(wm_data1) :
          /\ GapAbove(i) > 360
          /\ wm_data1[i].id \in Ids(keys)
          /\ wm_data1[i - 1].id \notin Ids(keys)

\* C2: on a non-empty day the reading with the latest time-of-day, the first
\* row of the descending sort, is a key reading, whatever the gaps are.
C2_AnchorIsKey ==
    Enhanced =>
        /\ Len(wm_data1) >= 1
        /\ wm_data1[1].id \in Ids(keys)
        /\ wm_data1[1].t = TimeOfDay(readings[wm_data1[1].id].ts)
        /\ \A j \in 1..Len(readings) :
              \/ TimeOfDay(readings[j].ts) = NaT
              \/ /\ wm_data1[1].t # NaT
                 /\ TimeOfDay(readings[j].ts) <= wm_data1[1].t

\* Several readings, none more than 360 s below the one above it, and the
\* latest one is the key reading.
C2_Witness ==
    /\ Enhanced
    /\ Len(wm_data1) >= 2
    /\ \A i \in 2..Len(wm_data1) : GapAbove(i) <= 360
    /\ wm_data1[1].t # NaT
    /\ wm_data1[2].t # NaT
    /\ wm_data1[2].t < wm_data1[1].t
    /\ Ids(keys) = {wm_data1[1].id}

\* C3: the chronologically earliest key reading is no row of the interval
\* table, and every other key reading is exactly one row of it, in order.
C3_TrailingDrop ==
    Enhanced =>
        /\ Len(keys) >= 1
        /\ Cardinality(Ids(keys)) = Len(keys)
        /\ \A i \in 1..Len(keys) : keys[Len(keys)].t <= keys[i].t
        /\ keys[Len(keys)].id \notin Ids(out)
        /\ Len(out) = Len(keys) - 1
        /\ \A i \in 1..Len(out) : out[i].id = keys[i].id

\* Three key readings: two rows are emitted and the earliest is dropped.
C3_Witness ==
    /\ Enhanced
    /\ Len(keys) = 3
    /\ Len(out) = 2
    /\ keys[3].t < keys[2].t

\* C4: the volume of emitted row i is 1000 x (cumulative_flow of key reading
\* i - cumulative_flow of key reading i+1 of the descending key list), both
\* read from the input; it is NaN exactly when one of the two is missing.
C4_VolumeIsKeyDifference ==
    Enhanced =>
        \A i \in 1..Len(out) :
            /\ i < Len(keys)
            /\ out[i].id = keys[i].id
            /\ LET a == readings[keys[i].id].flow
                   b == readings[keys[i + 1].id].flow
               IN  IF a = NaN \/ b = NaN
                   THEN out[i].vol = NaN
                   ELSE out[i].vol # NaN /\ out[i].vol = 1000 * (a - b)

\* A non-key reading lies between two key readings and its flow differs from
\* both; the emitted volume is the difference of the key readings' flows.
C4_Witness ==
    /\ Enhanced
    /\ Len(out) = 1
    /\ out[1].vol = 315000
    /\ \E j \in 1..Len(readings) :
          /\ j \notin Ids(keys)
          /\ readings[j].flow = NaN
          /\ TimeOfDay(readings[j].ts) # NaT
          /\ TimeOfDay(readings[j].ts) < keys[1].t
          /\ TimeOfDay(readings[j].ts) > keys[2].t

\* C5: an emitted interval of signed volume v is Flushing iff v > 25 L,
\* Bucket iff 6.5 L < v <= 25 L, and SmallUse iff v <= 6.5 L, zero and
\* negative volumes included.
C5_SignedBands ==
    Enhanced =>
        \A i \in 1..Len(out) :
            out[i].vol # NaN =>
                /\ out[i].label = Flushing <=> out[i].vol > 250000
                /\ out[i].label = Bucket <=>
                       (out[i].vol > 65000 /\ out[i].vol <= 250000)
                /\ out[i].label = SmallUse <=> out[i].vol <= 65000

\* A day with an interval of exactly 25 L (Bucket) and one of exactly 6.5 L
\* (SmallUse).
C5_Witness ==
    /\ Enhanced
    /\ \E i \in 1..Len(out) : out[i].vol = 250000 /\ out[i].label = Bucket
    /\ \E i \in 1..Len(out) : out[i].vol = 65000 /\ out[i].label = SmallUse

\* C6 as stated: every row of the interval table carries one of the three
\* labels, also when a key reading has no numeric cumulative_flow.
C6_EveryRowLabelled ==
    Enhanced => \A i \in 1..Len(out) : out[i].label \in Labels

\* C7 as stated: no row of the interval table has a NaN volume, and the
\* computation does not raise.
C7_NoNaNRow ==
    fn # "none" =>
        /\ ~raised
        /\ \A i \in 1..Len(out) : out[i].vol # NaN

\* C8 as stated: in scenario 1 the key readings are those of 08:10 and 08:00,
\* and the 08:02 reading is none.
C8_KeysAre0810And0800 ==
    Enhanced =>
        /\ {keys[i].t : i \in 1..Len(keys)} = {29400, 28800}
        /\ \A i \in 1..Len(keys) : keys[i].t # 28920

\* C8 amended: in scenario 1 the key readings are exactly those of 08:10 (the
\* anchor) and 08:02 (480 s below it), and the 08:00 reading is none.
C8_KeysAre0810And0802 ==
    Enhanced =>
        /\ Len(keys) = 2
        /\ keys[1].t = 29400
        /\ keys[2].t = 28920
        /\ \A i \in 1..Len(keys) :
              /\ keys[i].t # 28800
              /\ TimeOfDay(readings[keys[i].id].ts) = keys[i].t

\* The three readings of scenario 1 have been reduced to two key readings.
C8_Witness ==
    /\ Enhanced
    /\ {TimeOfDay(readings[i].ts) : i \in 1..Len(readings)} = {28800, 28920, 29400}
    /\ Len(readings) = 3
    /\ Len(keys) = 2

\* The cumulative flows of scenario 1: 10.000 at 08:00 and 08:02, 10.030 at
\* 08:10.
Scenario1Flows ==
    \A i \in 1..Len(readings) :
        readings[i].flow = IF readings[i].ts = 29400 THEN 100300 ELSE 100000

\* C9: on the readings of scenario 1 exactly one interval is emitted, of
\* 30.0 L, labelled Flushing.
C9_OneFlushingInterval ==
    (Enhanced /\ Scenario1Flows) =>
        /\ Len(out) = 1
        /\ out[1].vol = 300000
        /\ out[1].label = Flushing

\* Scenario 1 has been analysed.
C9_Witness ==
    /\ Enhanced
    /\ Scenario1Flows
    /\ Len(readings) = 3
    /\ Len(out) = 1

\* No two readings that are adjacent in time-of-day order are more than
\* 360 s apart: between any two readings further apart lies a third.
NoLongGap ==
    \A i, j \in 1..Len(readings) :
        LET ti == TimeOfDay(readings[i].ts)
            tj == TimeOfDay(readings[j].ts)
        IN  (ti # NaT /\ tj # NaT /\ ti - tj > 360) =>
                \E k \in 1..Len(readings) :
                    LET tk == TimeOfDay(readings[k].ts)
                    IN  tk # NaT /\ tj < tk /\ tk < ti

\* C10: on a non-empty day without a gap of more than 360 s (a day of one
\* reading included) the anchor is the only key reading, no interval is
\* emitted and nothing is raised.
C10_NoGapNoInterval ==
    (Enhanced /\ NoLongGap) =>
        /\ Len(keys) = 1
        /\ keys[1].id = wm_data1[1].id
        /\ out = <<>>
        /\ ~raised

\* Three readings with parseable times, two of them at the same time, none
\* more than 360 s from the next.
C10_Witness ==
    /\ Enhanced
    /\ NoLongGap
    /\ Len(readings) = 3
    /\ \A i \in 1..3 : readings[i].ts # NaT
    /\ Cardinality({readings[i].ts : i \in 1..3}) = 2
    /\ out = <<>>

\* C11: when cumulative_flow is lower at a key reading than at the next
\* (chronologically earlier) key reading, the interval between them is a row
\* of the interval table, with its negative volume and the label SmallUse.
C11_NegativeIsSmallUse ==
    Enhanced =>
        \A i \in 1..(Len(keys) - 1) :
            LET a == readings[keys[i].id].flow
                b == readings[keys[i + 1].id].flow
            IN  (a # NaN /\ b # NaN /\ a < b) =>
                    /\ i <= Len(out)
                    /\ out[i].id = keys[i].id
                    /\ out[i].vol = 1000 * (a - b)
                    /\ out[i].vol < 0
                    /\ out[i].label = SmallUse

\* The counter fell by 0.01 m^3 between two key readings: a row of -10.0 L,
\* SmallUse.
C11_Witness ==
    /\ Enhanced
    /\ \E i \in 1..Len(out) :
          /\ out[i].vol = -100000
          /\ out[i].label = SmallUse
          /\ readings[keys[i + 1].id].flow - readings[keys[i].id].flow = 100

Adjacent == fn = "compute_intervals"

\* C12 as stated: in the paths that take absolute volumes or keep positive
\* volumes only, an interval whose signed volume (cumulative_flow of the
\* later reading minus that of the earlier one) is zero or negative
\* contributes no row to the output.
C12_NonPositiveExcluded ==
    (Keypoints \/ Adjacent) =>
        \A i \in 1..(Len(keys) - 1) :
            LET earlier == keys[i].flow
                later == keys[i + 1].flow
            IN  (earlier # NaN /\ later # NaN /\ later - earlier <= 0) =>
                    keys[i].id \notin Ids(out)

\* Row i of the sorted table is a 00:01 reading directly below a 23:59
\* reading.
MidnightPair(i) == wm_data1[i - 1].t = 86340 /\ wm_data1[i].t = 60

EachReadingOnce ==
    /\ Len(wm_data1) = Len(readings)
    /\ \A j \in 1..Len(readings) :
          /\ Cardinality({i \in 1..Len(wm_data1) : wm_data1[i].id = j}) = 1
          /\ \E i \in 1..Len(wm_data1) :
                /\ wm_data1[i].id = j
                /\ wm_data1[i].ts = readings[j].ts
                /\ wm_data1[i].flow = readings[j].flow

\* C14 as stated: the full reading table holds every input reading exactly
\* once and is ordered by time ascending.
C14_FullSetAscending ==
    Enhanced =>
        /\ EachReadingOnce
        /\ \A i, j \in 1..Len(wm_data1) :
              (i < j /\ wm_data1[i].t # NaT /\ wm_data1[j].t # NaT) =>
                  wm_data1[i].t <= wm_data1[j].t

\* C14 amended: the full reading table holds every input reading exactly
\* once and is ordered by time-of-day DESCENDING, the readings without a
\* parseable time last.
C14_FullSetDescending ==
    Enhanced =>
        /\ EachReadingOnce
        /\ \A i, j \in 1..Len(wm_data1) :
              i < j =>
                  \/ wm_data1[j].t = NaT
                  \/ wm_data1[i].t # NaT /\ wm_data1[i].t >= wm_data1[j].t

\* Three readings given in ascending order of time, one of them without a
\* parseable time, are all in the table, latest first.
C14_Witness ==
    /\ Enhanced
    /\ Len(readings) = 3
    /\ readings[1].ts # NaT
    /\ readings[2].ts # NaT
    /\ readings[1].ts < readings[2].ts
    /\ readings[3].ts = NaT
    /\ Len(wm_data1) = 3
    /\ wm_data1[1].id = 2
    /\ wm_data1[2].id = 1
    /\ wm_data1[3].id = 3

AppEnhanced == fn = "app.create_enhanced_figure_cn"

SomeParseable == \E j \in 1..Len(readings) : readings[j].ts # NaT

\* C15 as stated: when some reading of the day has a parseable timestamp, a
\* reading whose timestamp cannot be parsed is no key reading and no row of
\* the full reading table, and nothing is raised.
C15_UnparseableExcluded ==
    ((Enhanced \/ AppEnhanced) /\ SomeParseable) =>
        /\ ~raised
        /\ \A i \in 1..Len(keys) : keys[i].ts # NaT
        /\ \A i \in 1..Len(wm_data1) : wm_data1[i].ts # NaT

\* C16 as stated: when no reading of the day has a parseable timestamp, the
\* computation reports a failure instead of returning a result.
C16_AllUnparseableFails ==
    ((Enhanced \/ AppEnhanced) /\ ~SomeParseable) => raised

\* C17: every input reading is at most one row of the key-reading table, so
\* no interval pairs a reading with itself; the anchor in particular is never
\* selected a second time by the gap rule.
C17_KeyAtMostOnce ==
    (Enhanced \/ AppEnhanced \/ Keypoints) =>
        /\ \A j \in 1..Len(readings) :
              Cardinality({i \in 1..Len(keys) : keys[i].id = j}) <= 1
        /\ \A i \in 1..(Len(keys) - 1) : keys[i].id # keys[i + 1].id
        /\ \A i \in 1..Len(wm_data1) :
              (i = 1 /\ Len(keys) >= 1) =>
                  /\ ~Gt(wm_data1[i].gap, GapThreshold)
                  /\ Cardinality({n \in 1..Len(keys) :
                                     keys[n].id = wm_data1[i].id}) = 1

\* Two readings share the latest time of the day and a third lies more than
\* 360 s below them: the anchor and the third are the key readings, once
\* each.
C17_Witness ==
    /\ Enhanced
    /\ Len(readings) = 3
    /\ wm_data1[1].t # NaT
    /\ wm_data1[1].t = wm_data1[2].t
    /\ wm_data1[3].t # NaT
    /\ wm_data1[2].t - wm_data1[3].t > 360
    /\ Len(keys) = 2
    /\ keys[1].id = wm_data1[1].id
    /\ keys[2].id = wm_data1[3].id

\* A day as the pages hand it over: every timestamp parseable and of the
\* first calendar day, no two equal, every flow numeric and never falling
\* with time.
CleanDay ==
    /\ \A i \in 1..Len(readings) :
          /\ readings[i].ts # NaT
          /\ readings[i].ts \div (24 * 3600) = 0
          /\ readings[i].flow # NaN
    /\ \A i, j \in 1..Len(readings) :
          /\ i # j => readings[i].ts # readings[j].ts
          /\ readings[i].ts < readings[j].ts =>
                 readings[i].flow <= readings[j].flow

\* The interval table of the enhanced figure for the input table df.
EnhancedIntervals(df) ==
    flow_calc(KeyReadings(WithGaps(sort_values_desc(dropna(Rows(df))))))

\* The number of rows of tbl with absolute volume v and label l.
PairCount(tbl, v, l) ==
    Cardinality({i \in 1..Len(tbl) : Abs(tbl[i].vol) = v /\ tbl[i].label = l})

SameMultiset(a, b) ==
    \A r \in Range(a) \cup Range(b) :
        PairCount(a, Abs(r.vol), r.label) = PairCount(b, Abs(r.vol), r.label)

\* C19 as stated: on a clean single day compute_intervals_keypoints yields
\* the same multiset of (absolute interval volume, label) as the key-point
\* computation of the enhanced figure.
C19_KeypointsMatchEnhanced ==
    (Keypoints /\ CleanDay) => SameMultiset(out, EnhancedIntervals(readings))

Script == fn = "water_analysis_enhanced_en"

\* The English label of the script for a label of the figure.
EnglishLabel(l) == IF l = SmallUse THEN "Small Use" ELSE l

\* C20: for the readings of one date, all with parseable timestamps and
\* numeric cumulative_flow, create_enhanced_figure_cn computes the same key
\* readings, the same signed interval volumes and the same behaviour classes
\* (up to the label names) as selectdate followed by flow_calc of the script.
C20_ReplicatesScript ==
    (Script /\ ~raised /\ \A i \in 1..Len(readings) : readings[i].flow # NaN) =>
        LET date == DateOf(wm_data1[1].ts)
            day == SelectSeq(readings, LAMBDA r : DateOf(r.ts) = date)
            w1 == WithGaps(sort_values_desc(Rows(day)))
            k == KeyReadings(w1)
            o == flow_calc(k)
        IN  /\ Len(wm_data1) = Len(w1)
            /\ Len(keys) = Len(k)
            /\ \A i \in 1..Len(k) :
                  keys[i].ts = k[i].ts /\ keys[i].flow = k[i].flow
            /\ Len(out) = Len(o)
            /\ \A i \in 1..Len(o) :
                  /\ out[i].ts = o[i].ts
                  /\ out[i].vol = o[i].vol
                  /\ out[i].label = EnglishLabel(o[i].label)

\* The script has reduced three readings of one date to two key readings
\* and one interval of 31.5 L.
C20_Witness ==
    /\ Script
    /\ ~raised
    /\ Len(wm_data1) = 3
    /\ Len(keys) = 2
    /\ Len(out) = 1
    /\ out[1].vol = 315000
    /\ out[1].label = "Flushing"

AllParseable == \A j \in 1..Len(readings) : readings[j].ts # NaT

\* The rows of the sorted table that lie more than 360 s below the row
\* above them.
LongGapPairs == {i \in 2..Len(wm_data1) : GapAbove(i) > GapThreshold}

\* C27: on a non-empty day whose timestamps are all parseable, the number
\* of emitted intervals is the number of pairs of readings adjacent in the
\* descending time-of-day order that are more than 360 s apart, and it is
\* the size of the set of key readings minus one.
C27_IntervalsCountLongGaps ==
    (Enhanced /\ AllParseable) =>
        /\ SortedInput
        /\ Len(out) = Cardinality(LongGapPairs)
        /\ Len(out) = Cardinality(Ids(keys)) - 1

\* Three readings, the middle one close to the latest and far from the
\* earliest: one interval.
C27_Witness ==
    /\ Enhanced
    /\ AllParseable
    /\ Len(wm_data1) = 3
    /\ GapAbove(2) > 0
    /\ GapAbove(2) <= GapThreshold
    /\ GapAbove(3) > GapThreshold
    /\ Len(out) = 1

\* wm_data2['区间流量'].sum() over the first n rows of the interval table.
RECURSIVE SumVol(_, _)
SumVol(tbl, n) == IF n = 0 THEN 0 ELSE SumVol(tbl, n - 1) + tbl[n].vol

KeysNumeric == \A i \in 1..Len(keys) : readings[keys[i].id].flow # NaN

\* C28: when every key reading has a numeric cumulative_flow, the signed
\* volumes of the emitted intervals add up to 1000 x (cumulative_flow of the
\* latest reading of the day - cumulative_flow of the chronologically
\* earliest key reading).
C28_Telescoping ==
    (Enhanced /\ KeysNumeric) =>
        /\ \A i \in 1..Len(out) : out[i].vol # NaN
        /\ \A i \in 1..Len(keys) : keys[Len(keys)].t <= keys[i].t
        /\ SumVol(out, Len(out)) =
               1000 * (readings[wm_data1[1].id].flow
                       - readings[keys[Len(keys)].id].flow)

\* Two intervals of opposite sign, neither of them the total.
C28_Witness ==
    /\ Enhanced
    /\ KeysNumeric
    /\ Len(out) = 2
    /\ out[1].vol = -315000
    /\ out[2].vol = 315000

\* Every timestamp parseable, no two times-of-day equal, every
\* cumulative_flow numeric and never falling with the time-of-day.
MonotoneDay ==
    /\ AllParseable
    /\ \A i \in 1..Len(readings) : readings[i].flow # NaN
    /\ \A i, j \in 1..Len(readings) :
          /\ i # j => TimeOfDay(readings[i].ts) # TimeOfDay(readings[j].ts)
          /\ TimeOfDay(readings[i].ts) < TimeOfDay(readings[j].ts) =>
                 readings[i].flow <= readings[j].flow

\* C29: when cumulative_flow never falls with time over the readings of the
\* day, no emitted interval has a negative volume; and an interval has a
\* negative volume only when the counter of the later key reading is below
\* that of the earlier one.
C29_SignConvention ==
    Enhanced =>
        /\ MonotoneDay =>
               \A i \in 1..Len(out) : out[i].vol # NaN /\ out[i].vol >= 0
        /\ \A i \in 1..Len(out) :
               (out[i].vol # NaN /\ out[i].vol < 0) =>
                   /\ keys[i].t > keys[i + 1].t
                   /\ readings[keys[i].id].flow
                          < readings[keys[i + 1].id].flow

\* A rising counter read three times, handed over from early to late: two
\* intervals, one of no use and one of 31.5 L.
C29_Witness ==
    /\ Enhanced
    /\ MonotoneDay
    /\ Len(readings) = 3
    /\ readings[1].ts < readings[2].ts
    /\ readings[2].ts < readings[3].ts
    /\ Len(out) = 2
    /\ out[1].vol = 0
    /\ out[2].vol = 315000

\* The difference that time_diff_seconds forms before its correction.
NaiveGap(i) == wm_data1[i - 1].t - wm_data1[i].t

\* C30: in the extraction the gaps are taken between rows adjacent in the
\* descending time-of-day sort, so the difference (seconds of the row
\* above - seconds of this row) is never negative and is the gap as it
\* stands; the gap of the first row is 0 and every gap lies in 0..86399.
C30_WrapNeverApplied ==
    Enhanced =>
        /\ Len(wm_data1) >= 1
        /\ wm_data1[1].gap = 0
        /\ \A i \in 1..Len(wm_data1) : wm_data1[i].gap \in 0..86399
        /\ \A i \in 2..Len(wm_data1) :
               (wm_data1[i - 1].t # NaT /\ wm_data1[i].t # NaT) =>
                   /\ NaiveGap(i) >= 0
                   /\ wm_data1[i].gap = NaiveGap(i)

\* Readings of 08:00:00 and 23:59:00 of one date and of 00:01:00 of the
\* next, handed over from early to late: the gaps are 0, 57540 and 28740.
C30_Witness ==
    /\ Enhanced
    /\ Len(readings) = 3
    /\ readings[1].ts < readings[2].ts
    /\ readings[2].ts < readings[3].ts
    /\ readings[3].ts >= 24 * 3600
    /\ Len(wm_data1) = 3
    /\ wm_data1[1].gap = 0
    /\ wm_data1[2].gap = 57540
    /\ wm_data1[3].gap = 28740

\* ------------------------------------------------------------------------
\* api_server_local.py: the rate limit of /api/data.

\* No interval function has run.
WaterIdle ==
    /\ readings = <<>>
    /\ fn = "none"
    /\ wm_data1 = <<>>
    /\ keys = <<>>
    /\ out = <<>>
    /\ raised = FALSE

\* int(time.time())
Now == clock \div TicksPerSecond

\* Faulty variant of Recent: entries of 59 s and more are removed.
RecentShort(bucket, now) == SelectSeq(bucket, LAMBDA t : now - t < 59)

\* [t for t in bucket if now - t < 60]
Recent(bucket, now) == SelectSeq(bucket, LAMBDA t : now - t < RateWindow)

\* _rate_limit_check(ip): raises HTTPException(429) and leaves _RATE_BUCKETS
\* as it is, or stores the recent entries with now appended.
rate_limit_check(ip, now, buckets) ==
    LET bucket == Recent(buckets[ip], now)
    IN  IF Len(bucket) >= RATE_LIMIT_PER_MIN
        THEN [raised |-> TRUE, buckets |-> buckets]
        ELSE [raised |-> FALSE,
              buckets |-> [buckets EXCEPT ![ip] = Append(bucket, now)]]

\* POST /api/data from client ip, whose updateTime can be parsed or not.
\* Every exception raised in the handler's body, the limiter's
\* HTTPException(429) included, is caught by the handler's own
\* "except Exception" and turned into HTTPException(500).
receive_data ==
    \E ip \in IPs, parseable \in BOOLEAN :
        LET chk == rate_limit_check(ip, Now, RATE_BUCKETS)
            ok == ~chk.raised /\ parseable
        IN  /\ RATE_BUCKETS' = chk.buckets
            /\ accepted' = IF chk.raised THEN accepted
                           ELSE [accepted EXCEPT ![ip] = Append(@, clock)]
            /\ response' = [ip |-> ip,
                            limited |-> chk.raised,
                            status |-> IF ok THEN 200 ELSE 500,
                            scheduled |-> ok,
                            before |-> RATE_BUCKETS[ip]]
            /\ UNCHANGED <<clock, notRate>>

\* Time passes until the next instant at which a request arrives.
Tick ==
    /\ \E c \in Instants : c > clock /\ clock' = c
    /\ UNCHANGED notClock

InitRate == WaterIdle /\ ServerIdle

NextRate == receive_data \/ Tick

SpecRate == InitRate /\ [][NextRate]_vars

\* C21 as stated: a /api/data request that exceeds the rate limit of its
\* client is answered with status 429, and no save task is scheduled for it.
C21_Limited429 ==
    response.limited => (response.status = 429 /\ ~response.scheduled)

\* The number of calls accepted for ip at the clock values from c - width + 1
\* to c.
AcceptedIn(ip, c, width) ==
    Cardinality({i \in 1..Len(accepted[ip]) :
                    accepted[ip][i] <= c /\ c - accepted[ip][i] < width})

\* The same, counted on the whole seconds of the clock.
AcceptedInSeconds(ip, sec) ==
    Cardinality({i \in 1..Len(accepted[ip]) :
                    LET t == accepted[ip][i] \div TicksPerSecond
                    IN  t <= sec /\ sec - t < RateWindow})

\* A rejected call leaves the bucket of its client as it was.
RejectedKeepsBucket ==
    response.limited => RATE_BUCKETS[response.ip] = response.before

\* C22 as stated: for every client, no more than RATE_LIMIT_PER_MIN calls
\* are accepted within any 60 seconds, and a rejected call leaves the client's
\* bucket unchanged.
C22_AtMostLimitPerWindow ==
    /\ RejectedKeepsBucket
    /\ \A ip \in IPs : \A i \in 1..Len(accepted[ip]) :
          AcceptedIn(ip, accepted[ip][i], RateWindow * TicksPerSecond)
              <= RATE_LIMIT_PER_MIN

\* C22 amended: for every client, no more than RATE_LIMIT_PER_MIN calls are
\* accepted within any 60 consecutive whole seconds of the server clock
\* (calls whose int(time.time()) differ by less than 60), and a rejected call
\* leaves the client's bucket unchanged.
C22_AtMostLimitPerClockWindow ==
    /\ RejectedKeepsBucket
    /\ \A ip \in IPs : \A i \in 1..Len(accepted[ip]) :
          AcceptedInSeconds(ip, accepted[ip][i] \div TicksPerSecond)
              <= RATE_LIMIT_PER_MIN

\* A client has used its quota at 0.0-0.5 s, has been rejected at 59.5 s
\* with its bucket left alone, and has not been accepted since.
C22_Witness ==
    /\ clock = 119
    /\ response.limited
    /\ response.ip = "10.0.0.1"
    /\ Len(accepted["10.0.0.1"]) = RATE_LIMIT_PER_MIN
    /\ RATE_BUCKETS["10.0.0.1"] = response.before
    /\ Len(accepted["10.0.0.2"]) >= 1

\* ------------------------------------------------------------------------
\* local_storage.py: the daily check for data to clean up.

Max(S) == CHOOSE x \in S : \A y \in S : y <= x

\* check_data_cleanup() on the data file df.  now1 and now2 are the days of
\* its two calls of datetime.now().
check_data_cleanup(df, now1, now2) ==
    LET cutoff_date == now1 - DATA_RETAIN_DAYS
        old_data == SelectSeq(df, LAMBDA d : d < cutoff_date)
        newest_date == Max(Range(old_data))
        count == Len(old_data)
        warning_date == now2 - (DATA_RETAIN_DAYS - CLEANING_WARNING_DAYS)
    IN  IF df = <<>> THEN [needs_cleanup |-> FALSE, count |-> 0]
        ELSE IF old_data = <<>> THEN [needs_cleanup |-> FALSE, count |-> 0]
        ELSE IF newest_date >= warning_date
             THEN [needs_cleanup |-> FALSE, count |-> count]
             ELSE [needs_cleanup |-> TRUE, count |-> count]

\* perform_data_cleanup() after its own check has asked for a cleanup: the
\* records of the last DATA_RETAIN_DAYS days are kept.
perform_data_cleanup(df, now) ==
    SelectSeq(df, LAMBDA d : d >= now - DATA_RETAIN_DAYS)

\* One round of _check_data_cleanup_loop: the check, the cleanup if the
\* check asks for one, and the sleep of 24 hours.  Midnight may pass between
\* the two calls of datetime.now() in the check.
check_data_cleanup_loop ==
    /\ today < MaxDay
    /\ \E now2 \in {today, today + 1} :
          LET res == check_data_cleanup(data_file, today, now2)
          IN  /\ cleanup_result' = res
              /\ warned' = (warned \/ (~res.needs_cleanup /\ res.count > 0))
              /\ data_file' =
                    IF res.needs_cleanup
                       /\ check_data_cleanup(data_file, today, today).needs_cleanup
                    THEN perform_data_cleanup(data_file, today)
                    ELSE data_file
    /\ today' = today + 1
    /\ UNCHANGED notCleanup

\* A data file whose records all are younger than the retention period less
\* the warning period on the first day.
InitCleanup ==
    /\ WaterIdle
    /\ clock = 0
    /\ RateIdle
    /\ today = FirstDay
    /\ data_file \in UNION {[1..n -> RecordDates] : n \in 1..MaxRecords}
    /\ cleanup_result = NoResult
    /\ warned = FALSE
    /\ AuthIdle
    /\ StorageIdle
    /\ RegistryIdle

NextCleanup == check_data_cleanup_loop

SpecCleanup == InitCleanup /\ [][NextCleanup]_vars

\* C23 as stated: check_data_cleanup reports records as to be cleaned
\* (needs_cleanup = True) only after it has reported a warning for them
\* (needs_cleanup = False with a count above zero) on an earlier day.
C23_WarningBeforeCleanup ==
    cleanup_result.needs_cleanup => warned

\* ------------------------------------------------------------------------
\* api_server_local.py: tokens.

\* Faulty variant of Expired: a token is rejected already in the second of
\* its expiry.
ExpiredAtEqual(exp, now) == exp <= now

\* int(payload.get('exp', 0)) < int(time.time())
Expired(exp, now) == exp < now

\* create_token: the payload's exp is the whole second of issue plus the TTL.
create_token(now) == [exp |-> now + TOKEN_TTL_SECONDS, issued |-> clock]

\* verify_token: HTTPException(401) for a token whose signature does not
\* match or whose exp has passed, the payload otherwise.
verify_token(tok, tampered, now) ==
    IF tampered THEN 401
    ELSE IF Expired(tok.exp, now) THEN 401
    ELSE 200

\* POST /auth/login with valid credentials.
auth_login ==
    /\ token' = create_token(Now)
    /\ UNCHANGED <<verdict, clock, notAuth>>

\* GET /auth/verify with the token issued last, as issued or altered.
auth_verify ==
    /\ token # NoToken
    /\ \E tampered \in BOOLEAN :
          LET st == verify_token(token, tampered, Now)
          IN  verdict' = [ok |-> st = 200, status |-> st, at |-> clock,
                          issued |-> token.issued, tampered |-> tampered]
    /\ UNCHANGED <<token, clock, notAuth>>

InitAuth == WaterIdle /\ ServerIdle

NextAuth == auth_login \/ auth_verify \/ Tick

SpecAuth == InitAuth /\ [][NextAuth]_vars

\* C24 as stated: a token issued at time t with TTL T is accepted at every
\* time up to and including t + T and rejected, with status 401 and
\* ok = false, at every time after t + T.
C24_AcceptedUntilExpiry ==
    (verdict # NoVerdict /\ ~verdict.tampered) =>
        /\ verdict.ok <=>
               verdict.at <= verdict.issued + TOKEN_TTL_SECONDS * TicksPerSecond
        /\ ~verdict.ok <=> verdict.status = 401

\* C24 amended: a token issued at time t with TTL T is accepted at every
\* time whose whole second is at most the whole second of t plus T (so at
\* every time up to t + T, and for less than a second longer), and rejected,
\* with status 401 and ok = false, from second int(t) + T + 1 on.
C24_AcceptedUntilExpirySecond ==
    (verdict # NoVerdict /\ ~verdict.tampered) =>
        /\ verdict.ok <=>
               verdict.at \div TicksPerSecond
                   <= verdict.issued \div TicksPerSecond + TOKEN_TTL_SECONDS
        /\ verdict.at <= verdict.issued + TOKEN_TTL_SECONDS * TicksPerSecond
               => verdict.ok
        /\ ~verdict.ok <=> verdict.status = 401

\* A token issued at 0.0 s has been rejected at 61.0 s.
C24_Witness ==
    /\ verdict.issued = 0
    /\ verdict.at = 122
    /\ ~verdict.tampered
    /\ ~verdict.ok
    /\ verdict.status = 401

\* ------------------------------------------------------------------------
\* local_storage.py: the data file and the query cache, with a writing
\* thread and querying threads.  A step is what a thread does between two
\* points at which another thread can run; cache_lock is held inside a step.

\* The writes that have returned to their callers.
Returned == IF wpc = "idle" THEN csv.writes ELSE csv.writes - 1

\* save_water_data, lines 369-374: the row is appended to the file.
save_water_data_write ==
    /\ wpc = "idle"
    /\ csv.writes < MaxWrites
    /\ csv' = [writes |-> csv.writes + 1, empty |-> FALSE]
    /\ wpc' = "written"
    /\ UNCHANGED <<query_cache, qpc, qdf, qneed, qresult, notStorage>>

\* delete_data_range, lines 530-550, for a range that covers every record:
\* the file is rewritten without the records.  Without a file or without
\* rows the function returns at once.
delete_data_range_write ==
    /\ wpc = "idle"
    /\ csv.writes < MaxWrites
    /\ ~csv.empty
    /\ csv' = [writes |-> csv.writes + 1, empty |-> TRUE]
    /\ wpc' = "written"
    /\ UNCHANGED <<query_cache, qpc, qdf, qneed, qresult, notStorage>>

\* save_water_data, lines 377-378, and delete_data_range, lines 553-554:
\* query_cache.clear(), after which the function returns.
clear_query_cache ==
    /\ wpc = "written"
    /\ query_cache' = NoEntry
    /\ wpc' = "idle"
    /\ UNCHANGED <<csv, qpc, qdf, qneed, qresult, notStorage>>

\* The cached entry is younger than CACHE_TIMEOUT.
Fresh == clock - query_cache.timestamp < CACHE_TIMEOUT * TicksPerSecond

\* query_water_data, lines 404-408: the look into the cache.
query_water_data_check(t) ==
    /\ qpc[t] = "idle"
    /\ qneed' = [qneed EXCEPT ![t] = Returned]
    /\ IF query_cache # NoEntry /\ Fresh
       THEN /\ qresult' = [qresult EXCEPT ![t] = query_cache.data]
            /\ UNCHANGED qpc
       ELSE /\ qpc' = [qpc EXCEPT ![t] = "miss"]
            /\ UNCHANGED qresult
    /\ UNCHANGED <<csv, query_cache, wpc, qdf, notStorage>>

\* query_water_data, lines 411-417: the file is read; without a file or
\* without rows the function returns what it has, and caches nothing.
query_water_data_read(t) ==
    /\ qpc[t] = "miss"
    /\ IF csv.empty
       THEN /\ qresult' = [qresult EXCEPT ![t] = csv.writes]
            /\ qpc' = [qpc EXCEPT ![t] = "idle"]
            /\ UNCHANGED qdf
       ELSE /\ qdf' = [qdf EXCEPT ![t] = csv.writes]
            /\ qpc' = [qpc EXCEPT ![t] = "read"]
            /\ UNCHANGED qresult
    /\ UNCHANGED <<csv, query_cache, wpc, qneed, notStorage>>

\* query_water_data, lines 420-442: the rows are filtered and sorted, and
\* the result is put into the cache and returned.
query_water_data_store(t) ==
    /\ qpc[t] = "read"
    /\ query_cache' = [data |-> qdf[t], timestamp |-> clock]
    /\ qresult' = [qresult EXCEPT ![t] = qdf[t]]
    /\ qpc' = [qpc EXCEPT ![t] = "idle"]
    /\ UNCHANGED <<csv, wpc, qdf, qneed, notStorage>>

query_water_data ==
    \E t \in Queriers :
        \/ query_water_data_check(t)
        \/ query_water_data_read(t)
        \/ query_water_data_store(t)

InitStorage == WaterIdle /\ ServerIdle

NextStorage ==
    \/ save_water_data_write
    \/ delete_data_range_write
    \/ clear_query_cache
    \/ query_water_data
    \/ Tick

SpecStorage == InitStorage /\ [][NextStorage]_vars

\* C25 as stated: a query that starts after a write has returned returns a
\* result that contains that write, whatever queries ran beside the write.
C25_QueryReflectsWrites ==
    \A t \in Queriers :
        (qpc[t] = "idle" /\ qresult[t] # -1) => qresult[t] >= qneed[t]

\* ------------------------------------------------------------------------
\* local_storage.py: the device registry devices.json.  A record is its
\* device_no and whether it has an updated_at.

DeviceNosOf(devices) == {devices[i].device_no : i \in 1..Len(devices)}

NewDevice(d) == [device_no |-> d, updated_at |-> "none"]

ImportedDevice(d) == [device_no |-> d, updated_at |-> "now"]

\* The loops of create_device, update_device and bulk_import_devices over
\* the records: the first record of the device_no gets an updated_at.
Touch(devices, d) ==
    LET first == CHOOSE i \in 1..Len(devices) :
                     /\ devices[i].device_no = d
                     /\ \A j \in 1..(i - 1) : devices[j].device_no # d
    IN  [devices EXCEPT ![first].updated_at = "now"]

\* get_device: the record of the device_no is in the file.
get_device(d) == d \in DeviceNosOf(devices_json)

\* save_water_data, lines 381-385: get_device finds no record.
save_water_data_get_device(t) ==
    /\ spc[t] = "idle"
    /\ \E d \in DeviceNos :
           /\ ~get_device(d)
           /\ sdevice' = [sdevice EXCEPT ![t] = d]
    /\ spc' = [spc EXCEPT ![t] = "unknown"]
    /\ UNCHANGED <<devices_json, sdevices, notRegistry>>

\* create_device, lines 186-195: the records are loaded, for a call of
\* the endpoint or for the registration of save_water_data.
create_device_load(t) ==
    /\ \/ spc[t] = "idle" /\ \E d \in DeviceNos :
                                   sdevice' = [sdevice EXCEPT ![t] = d]
       \/ spc[t] = "unknown" /\ UNCHANGED sdevice
    /\ sdevices' = [sdevices EXCEPT ![t] = devices_json]
    /\ spc' = [spc EXCEPT ![t] = "loaded"]
    /\ UNCHANGED <<devices_json, notRegistry>>

\* create_device, lines 198-222: the record is updated or appended and the
\* list is written.
create_device_write(t) ==
    /\ spc[t] = "loaded"
    /\ devices_json' =
           IF sdevice[t] \in DeviceNosOf(sdevices[t])
           THEN Touch(sdevices[t], sdevice[t])
           ELSE Append(sdevices[t], NewDevice(sdevice[t]))
    /\ spc' = [spc EXCEPT ![t] = "idle"]
    /\ UNCHANGED <<sdevice, sdevices, notRegistry>>

create_device ==
    \E t \in Savers :
        \/ save_water_data_get_device(t)
        \/ create_device_load(t)
        \/ create_device_write(t)

\* update_device: without the record nothing is written.
update_device ==
    \E d \in DeviceNos :
        /\ get_device(d)
        /\ devices_json' = Touch(devices_json, d)
        /\ UNCHANGED <<spc, sdevice, sdevices, notRegistry>>

\* The loop of bulk_import_devices, lines 278-295: device_map is built from
\* the records of the file before the loop and is not changed in it.
RECURSIVE import_devices(_, _, _)
import_devices(existing_devices, device_map, devices_data) ==
    IF devices_data = <<>>
    THEN existing_devices
    ELSE LET d == Head(devices_data)
         IN  import_devices(IF d \in device_map
                            THEN Touch(existing_devices, d)
                            ELSE Append(existing_devices, ImportedDevice(d)),
                            device_map, Tail(devices_data))

bulk_import_devices ==
    \E devices_data \in UNION {[1..n -> DeviceNos] : n \in 1..MaxImport} :
        /\ Len(devices_json) + Len(devices_data) <= MaxDevices
        /\ devices_json' = import_devices(devices_json,
                                DeviceNosOf(devices_json), devices_data)
        /\ UNCHANGED <<spc, sdevice, sdevices, notRegistry>>

\* delete_device: without the record nothing is written.
delete_device ==
    \E d \in DeviceNos :
        /\ get_device(d)
        /\ devices_json' = SelectSeq(devices_json,
                                LAMBDA r : r.device_no # d)
        /\ UNCHANGED <<spc, sdevice, sdevices, notRegistry>>

InitRegistry == WaterIdle /\ ServerIdle

NextRegistry ==
    \/ create_device
    \/ update_device
    \/ bulk_import_devices
    \/ delete_device

SpecRegistry == InitRegistry /\ [][NextRegistry]_vars

\* C26 as stated: devices.json never holds two records with the same
\* device_no.
C26_UniqueDeviceNo ==
    \A i, j \in 1..Len(devices_json) :
        devices_json[i].device_no = devices_json[j].device_no => i = j

====
